---- MODULE Spec2Model ----
(***************************************************************************)
(* The crane unloading problem: crane_unloading_exhaustive and             *)
(* crane_unloading_dyn_prog of cranes_algs.hpp, run one after the other on *)
(* the same grid.  The grid and path types come from cranes_types.hpp,     *)
(* which is modelled from its documented contract.                         *)
(***************************************************************************)
EXTENDS Integers, Sequences, FiniteSets, TLC

\* Largest number of rows and of columns of a grid.
MaxDim == 3
\* Largest number of cells (rows * columns) of a grid.
MaxCells == 8

CELL_EMPTY == "EMPTY"
CELL_CRANE == "CRANE"
CELL_BUILDING == "BUILDING"
CellKinds == {CELL_EMPTY, CELL_CRANE, CELL_BUILDING}

STEP_DIRECTION_EAST == "EAST"
STEP_DIRECTION_SOUTH == "SOUTH"
Directions == {STEP_DIRECTION_EAST, STEP_DIRECTION_SOUTH}

VARIABLES
  setting,     \* the grid both solvers are called with (lines 27, 76)
  pc,          \* position of the caller: exh, dp_start, dp_fill, dp_scan, done, assert_failed
  steps,       \* exhaustive: length of the candidates being enumerated (line 39)
  bits,        \* exhaustive: the candidate's bit value (line 41)
  k,           \* exhaustive: index of the next bit to replay (line 45)
  curr,        \* exhaustive: the candidate path (line 42)
  valid,       \* exhaustive: the candidate's validity flag (line 43)
  best,        \* exhaustive: the incumbent (line 37)
  exh_result,  \* optional: the path crane_unloading_exhaustive returned (line 69)
  A,           \* dyn_prog: the table of optional paths (line 84)
  r,           \* dyn_prog: row of the loop (fill line 89, then scan line 138)
  c,           \* dyn_prog: column of the loop (fill line 90, then scan line 139)
  dp_best,     \* dyn_prog: the cell the pointer best points to (line 135)
  dp_result    \* optional: the path crane_unloading_dyn_prog returned (line 149)

vars == <<setting, pc, steps, bits, k, curr, valid, best, exh_result,
          A, r, c, dp_best, dp_result>>

exhVars == <<steps, bits, k, curr, valid, best, exh_result>>
dpVars == <<A, r, c, dp_best, dp_result>>

----------------------------------------------------------------------------
(* grid *)

Coords(nrows, ncols) == (0 .. nrows - 1) \X (0 .. ncols - 1)

InGrid(g, row, col) == row >= 0 /\ row < g.rows /\ col >= 0 /\ col < g.columns

Get(g, row, col) == g.cells[<<row, col>>]

Grids ==
  UNION { { [rows |-> nr, columns |-> nc, cells |-> f] :
              f \in { h \in [Coords(nr, nc) -> CellKinds] : h[<<0, 0>>] # CELL_BUILDING } } :
          <<nr, nc>> \in { d \in (1 .. MaxDim) \X (1 .. MaxDim) : d[1] * d[2] <= MaxCells } }

----------------------------------------------------------------------------
(* path *)

\* path(setting): no moves, at (0,0); the start cell's crane is counted.
NewPath(g) ==
  [steps |-> <<>>,
   total_cranes |-> IF Get(g, 0, 0) = CELL_CRANE THEN 1 ELSE 0]

final_row(p) ==
  Cardinality({i \in 1 .. Len(p.steps) : p.steps[i] = STEP_DIRECTION_SOUTH})

final_column(p) ==
  Cardinality({i \in 1 .. Len(p.steps) : p.steps[i] = STEP_DIRECTION_EAST})

NextRow(p, d) == IF d = STEP_DIRECTION_SOUTH THEN final_row(p) + 1 ELSE final_row(p)

NextColumn(p, d) == IF d = STEP_DIRECTION_EAST THEN final_column(p) + 1 ELSE final_column(p)

is_step_valid(g, p, d) ==
  /\ InGrid(g, NextRow(p, d), NextColumn(p, d))
  /\ Get(g, NextRow(p, d), NextColumn(p, d)) # CELL_BUILDING

\* The value left behind by an add_step whose precondition does not hold:
\* the assertion fails and the program stops.
AssertFailed(p, d) ==
  [steps |-> Append(p.steps, d), total_cranes |-> p.total_cranes, assert_failed |-> TRUE]

Failed(p) == "assert_failed" \in DOMAIN p

add_step(g, p, d) ==
  IF is_step_valid(g, p, d)
  THEN [steps |-> Append(p.steps, d),
        total_cranes |-> IF Get(g, NextRow(p, d), NextColumn(p, d)) = CELL_CRANE
                         THEN p.total_cranes + 1
                         ELSE p.total_cranes]
  ELSE AssertFailed(p, d)

total_cranes(p) == p.total_cranes

\* std::optional<path>
None == [has_value |-> FALSE]
Some(p) == [has_value |-> TRUE, value |-> p]

----------------------------------------------------------------------------
(* crane_unloading_exhaustive *)

ExhMaxSteps(g) == g.rows + g.columns - 2

\* Mutation: the last bit pattern of each length (all EAST) is not enumerated.
ExhLastBitsShort(n) == 2 ^ n - 2

\* pow(2,steps)-1, the last value of bits for candidates of n steps.
\* (The double is exact for the lengths the grids here allow.)
ExhLastBits(n) == 2 ^ n - 1

\* (bits >> k) & 1
ExhBit(b, i) == (b \div (2 ^ i)) % 2

ExhDirection(bit) == IF bit = 1 THEN STEP_DIRECTION_EAST ELSE STEP_DIRECTION_SOUTH

\* Mutation: the step is pushed without asking is_step_valid, in a build whose
\* assertions are compiled out.
ExhReplayStepBlind(g, p, v, bit) ==
  [curr |-> [steps |-> Append(p.steps, ExhDirection(bit)),
             total_cranes |->
               IF /\ InGrid(g, NextRow(p, ExhDirection(bit)), NextColumn(p, ExhDirection(bit)))
                  /\ Get(g, NextRow(p, ExhDirection(bit)), NextColumn(p, ExhDirection(bit)))
                       = CELL_CRANE
               THEN p.total_cranes + 1
               ELSE p.total_cranes],
   valid |-> v]

\* Mutation: the step is added without asking is_step_valid.
ExhReplayStepUnguarded(g, p, v, bit) ==
  [curr |-> add_step(g, p, ExhDirection(bit)), valid |-> v]

\* Mutation: the replay stops extending a candidate once it is invalid.
ExhReplayStepStops(g, p, v, bit) ==
  IF v /\ is_step_valid(g, p, ExhDirection(bit))
  THEN [curr |-> add_step(g, p, ExhDirection(bit)), valid |-> v]
  ELSE [curr |-> p, valid |-> FALSE]

\* One iteration of the replay loop: the body of for (k ...).
ExhReplayStep(g, p, v, bit) ==
  IF bit = 1
  THEN IF is_step_valid(g, p, STEP_DIRECTION_EAST)
       THEN [curr |-> add_step(g, p, STEP_DIRECTION_EAST), valid |-> v]
       ELSE [curr |-> p, valid |-> FALSE]
  ELSE IF is_step_valid(g, p, STEP_DIRECTION_SOUTH)
       THEN [curr |-> add_step(g, p, STEP_DIRECTION_SOUTH), valid |-> v]
       ELSE [curr |-> p, valid |-> FALSE]

\* Mutation: a candidate with an equal count replaces the incumbent.
ExhBetterOrEqual(v, p, b) == v /\ total_cranes(p) >= total_cranes(b)

\* valid && (curr.total_cranes() > best.total_cranes())
ExhBetter(v, p, b) == v /\ total_cranes(p) > total_cranes(b)

ExhReplay ==
  /\ pc = "exh"
  /\ steps <= ExhMaxSteps(setting)
  /\ k < steps
  /\ LET res == ExhReplayStep(setting, curr, valid, ExhBit(bits, k)) IN
       IF Failed(res.curr)
       THEN /\ pc' = "assert_failed"
            /\ curr' = res.curr
            /\ UNCHANGED <<valid, k>>
       ELSE /\ curr' = res.curr
            /\ valid' = res.valid
            /\ k' = k + 1
            /\ pc' = pc
  /\ UNCHANGED <<setting, steps, bits, best, exh_result>>
  /\ UNCHANGED dpVars

ExhCompare ==
  /\ pc = "exh"
  /\ steps <= ExhMaxSteps(setting)
  /\ k = steps
  /\ best' = IF ExhBetter(valid, curr, best) THEN curr ELSE best
  /\ IF bits + 1 <= ExhLastBits(steps)
     THEN bits' = bits + 1 /\ steps' = steps
     ELSE bits' = 0 /\ steps' = steps + 1
  /\ curr' = NewPath(setting)
  /\ valid' = TRUE
  /\ k' = 0
  /\ UNCHANGED <<setting, pc, exh_result>>
  /\ UNCHANGED dpVars

ExhReturn ==
  /\ pc = "exh"
  /\ steps > ExhMaxSteps(setting)
  /\ exh_result' = Some(best)
  /\ pc' = "dp_start"
  /\ UNCHANGED <<setting, steps, bits, k, curr, valid, best>>
  /\ UNCHANGED dpVars

----------------------------------------------------------------------------
(* crane_unloading_dyn_prog *)

EmptyTable(g) == [rc \in Coords(g.rows, g.columns) |-> None]

\* from_above: A[r-1][c] copied and extended SOUTH under the guard.
DpFromAbove(g, tbl, row, col) ==
  IF row > 0 /\ tbl[<<row - 1, col>>].has_value
  THEN IF is_step_valid(g, tbl[<<row - 1, col>>].value, STEP_DIRECTION_SOUTH)
       THEN Some(add_step(g, tbl[<<row - 1, col>>].value, STEP_DIRECTION_SOUTH))
       ELSE tbl[<<row - 1, col>>]
  ELSE None

\* Mutation: from_left is the copy of A[r][c-1], the EAST step is never added.
DpFromLeftUnextended(g, tbl, row, col) ==
  IF col > 0 /\ tbl[<<row, col - 1>>].has_value
  THEN tbl[<<row, col - 1>>]
  ELSE None

\* from_left: A[r][c-1] copied and extended EAST under the guard.
DpFromLeft(g, tbl, row, col) ==
  IF col > 0 /\ tbl[<<row, col - 1>>].has_value
  THEN IF is_step_valid(g, tbl[<<row, col - 1>>].value, STEP_DIRECTION_EAST)
       THEN Some(add_step(g, tbl[<<row, col - 1>>].value, STEP_DIRECTION_EAST))
       ELSE tbl[<<row, col - 1>>]
  ELSE None

\* Mutation: from_above also wins a tie.
DpChooseAboveOnTie(fa, fl, old) ==
  IF fa.has_value /\ fl.has_value
  THEN IF total_cranes(fa.value) >= total_cranes(fl.value) THEN fa ELSE fl
  ELSE IF fa.has_value THEN fa
  ELSE IF fl.has_value THEN fl
  ELSE old

\* Mutation: the comparison is reversed, the path with fewer cranes is kept.
DpChooseFewer(fa, fl, old) ==
  IF fa.has_value /\ fl.has_value
  THEN IF total_cranes(fa.value) < total_cranes(fl.value) THEN fa ELSE fl
  ELSE IF fa.has_value THEN fa
  ELSE IF fl.has_value THEN fl
  ELSE old

\* The three ifs that assign A[r][c]; old is the entry's value before them.
DpChoose(fa, fl, old) ==
  IF fa.has_value /\ fl.has_value
  THEN IF total_cranes(fa.value) > total_cranes(fl.value) THEN fa ELSE fl
  ELSE IF fa.has_value /\ ~fl.has_value THEN fa
  ELSE IF fl.has_value /\ ~fa.has_value THEN fl
  ELSE old

\* Mutation: the BUILDING test of the cell is left out.
DpFillCellAnyCell(g, tbl, row, col) ==
  [tbl EXCEPT ![<<row, col>>] =
      DpChoose(DpFromAbove(g, tbl, row, col), DpFromLeft(g, tbl, row, col), tbl[<<row, col>>])]

\* The body of the fill loops for one cell.
DpFillCell(g, tbl, row, col) ==
  IF Get(g, row, col) # CELL_BUILDING
  THEN [tbl EXCEPT ![<<row, col>>] =
          DpChoose(DpFromAbove(g, tbl, row, col), DpFromLeft(g, tbl, row, col),
                   tbl[<<row, col>>])]
  ELSE tbl

\* Mutation: an entry with an equal count replaces the one best points to.
DpScanBetterOrEqual(tbl, row, col, b) ==
  /\ tbl[<<row, col>>].has_value
  /\ total_cranes(tbl[<<row, col>>].value) >= total_cranes(tbl[b].value)

\* A[r][c].has_value() && A[r][c]->total_cranes() > (*best)->total_cranes()
DpScanBetter(tbl, row, col, b) ==
  /\ tbl[<<row, col>>].has_value
  /\ total_cranes(tbl[<<row, col>>].value) > total_cranes(tbl[b].value)

\* ++c of the inner loop, then ++r of the outer one.
DpAdvance ==
  IF c + 1 < setting.columns
  THEN c' = c + 1 /\ r' = r
  ELSE c' = 0 /\ r' = r + 1

DynProgStart ==
  /\ pc = "dp_start"
  /\ A' = [EmptyTable(setting) EXCEPT ![<<0, 0>>] = Some(NewPath(setting))]
  /\ r' = 0
  /\ c' = 0
  /\ pc' = "dp_fill"
  /\ UNCHANGED <<setting, dp_best, dp_result>>
  /\ UNCHANGED exhVars

DpFill ==
  /\ pc = "dp_fill"
  /\ r < setting.rows
  /\ LET filled == DpFillCell(setting, A, r, c) IN
       IF filled[<<r, c>>].has_value /\ Failed(filled[<<r, c>>].value)
       THEN /\ pc' = "assert_failed"
            /\ UNCHANGED <<A, r, c>>
       ELSE /\ A' = filled
            /\ DpAdvance
            /\ pc' = pc
  /\ UNCHANGED <<setting, dp_best, dp_result>>
  /\ UNCHANGED exhVars

DpScanStart ==
  /\ pc = "dp_fill"
  /\ r = setting.rows
  /\ dp_best' = <<0, 0>>
  /\ pc' = IF A[<<0, 0>>].has_value THEN "dp_scan" ELSE "assert_failed"
  /\ r' = 0
  /\ c' = 0
  /\ UNCHANGED <<setting, A, dp_result>>
  /\ UNCHANGED exhVars

DpScan ==
  /\ pc = "dp_scan"
  /\ r < setting.rows
  /\ dp_best' = IF DpScanBetter(A, r, c, dp_best) THEN <<r, c>> ELSE dp_best
  /\ DpAdvance
  /\ UNCHANGED <<setting, pc, A, dp_result>>
  /\ UNCHANGED exhVars

DpReturn ==
  /\ pc = "dp_scan"
  /\ r = setting.rows
  /\ dp_result' = A[dp_best]
  /\ pc' = IF A[dp_best].has_value THEN "done" ELSE "assert_failed"
  /\ UNCHANGED <<setting, A, r, c, dp_best>>
  /\ UNCHANGED exhVars

----------------------------------------------------------------------------

Init ==
  /\ setting \in Grids
  /\ pc = "exh"
  /\ steps = 1
  /\ bits = 0
  /\ k = 0
  /\ curr = NewPath(setting)
  /\ valid = TRUE
  /\ best = NewPath(setting)
  /\ exh_result = None
  /\ A = EmptyTable(setting)
  /\ r = 0
  /\ c = 0
  /\ dp_best = <<0, 0>>
  /\ dp_result = None

Next ==
  \/ ExhReplay
  \/ ExhCompare
  \/ ExhReturn
  \/ DynProgStart
  \/ DpFill
  \/ DpScanStart
  \/ DpScan
  \/ DpReturn

Spec == Init /\ [][Next]_vars

----------------------------------------------------------------------------
(* Reference definitions: monotone walks, stated without the path type. *)

MoveSeqs(n) == UNION { [1 .. m -> Directions] : m \in 0 .. n }

RowAfter(s, i) == Cardinality({j \in 1 .. i : s[j] = STEP_DIRECTION_SOUTH})

ColAfter(s, i) == Cardinality({j \in 1 .. i : s[j] = STEP_DIRECTION_EAST})

\* Every cell of the walk, the start included, is in the grid and no BUILDING.
WalkOK(g, s) ==
  \A i \in 0 .. Len(s) :
    /\ InGrid(g, RowAfter(s, i), ColAfter(s, i))
    /\ Get(g, RowAfter(s, i), ColAfter(s, i)) # CELL_BUILDING

CranesOn(g, s) ==
  Cardinality({i \in 0 .. Len(s) : Get(g, RowAfter(s, i), ColAfter(s, i)) = CELL_CRANE})

ValidWalks(g) == { s \in MoveSeqs(ExhMaxSteps(g)) : WalkOK(g, s) }

\* The valid walks that end at the cell: they have row + col moves.
WalksTo(g, row, col) ==
  { s \in [1 .. (row + col) -> Directions] :
      RowAfter(s, row + col) = row /\ WalkOK(g, s) }

MaxOf(S) == CHOOSE x \in S : \A y \in S : y <= x

Optimum(g) == MaxOf({ CranesOn(g, s) : s \in ValidWalks(g) })

AllCells == Coords(setting.rows, setting.columns)

HasBuilding == \E rc \in AllCells : setting.cells[rc] = CELL_BUILDING

\* The fill loop has finished the cell.
DpFilled(row, col) ==
  \/ pc \in {"dp_scan", "done"}
  \/ pc = "dp_fill" /\ (row < r \/ (row = r /\ col < c))

\* Row-major order of the cells.
RowMajorBefore(x, y) == x[1] < y[1] \/ (x[1] = y[1] /\ x[2] < y[2])

----------------------------------------------------------------------------
(* C1, C2, C3: the returned paths *)

\* C1: once both solvers have returned, the path of crane_unloading_exhaustive
\* and the path of crane_unloading_dyn_prog have the same total_cranes().
C1_SameCount ==
  pc = "done" => total_cranes(exh_result.value) = total_cranes(dp_result.value)

C1_Witness ==
  /\ pc = "done"
  /\ exh_result.value.steps # dp_result.value.steps
  /\ total_cranes(exh_result.value) >= 2
  /\ total_cranes(exh_result.value) = total_cranes(dp_result.value)

\* C2: the total_cranes() of the path each solver returns is the maximum number
\* of CRANE cells on a monotone East/South walk from (0,0) of length 0 to
\* rows+columns-2 that stays in the grid and enters no BUILDING.
C2_Optimal ==
  pc = "done" =>
    LET opt == Optimum(setting) IN
      /\ total_cranes(exh_result.value) = opt
      /\ total_cranes(dp_result.value) = opt

C2_Witness ==
  /\ pc = "done"
  /\ HasBuilding
  /\ Optimum(setting) >= 2
  /\ \E s \in MoveSeqs(ExhMaxSteps(setting)) :
        ~WalkOK(setting, s) /\ CranesOn(setting, <<>>) < Optimum(setting)
  /\ total_cranes(exh_result.value) = Optimum(setting)
  /\ total_cranes(dp_result.value) = Optimum(setting)

WellFormedPath(p) ==
  /\ ~Failed(p)
  /\ \A i \in 1 .. Len(p.steps) : p.steps[i] \in Directions
  /\ Len(p.steps) <= ExhMaxSteps(setting)
  /\ WalkOK(setting, p.steps)

\* C3: a returned path starts at (0,0), makes only EAST and SOUTH moves, at
\* most rows+columns-2 of them, and every cell it visits is in the grid and is
\* no BUILDING.
C3_WellFormed ==
  pc = "done" =>
    /\ WellFormedPath(exh_result.value)
    /\ WellFormedPath(dp_result.value)

C3_Witness ==
  /\ pc = "done"
  /\ HasBuilding
  /\ Len(exh_result.value.steps) >= 2
  /\ Len(dp_result.value.steps) >= 2
  /\ WellFormedPath(exh_result.value)
  /\ WellFormedPath(dp_result.value)

----------------------------------------------------------------------------
(* C4: the tie-break of the table fill *)

\* Both from_above and from_left exist for the cell, which the fill has done.
DpBothExist(row, col) ==
  /\ DpFilled(row, col)
  /\ Get(setting, row, col) # CELL_BUILDING
  /\ DpFromAbove(setting, A, row, col).has_value
  /\ DpFromLeft(setting, A, row, col).has_value

DpTie(row, col) ==
  total_cranes(DpFromAbove(setting, A, row, col).value)
    = total_cranes(DpFromLeft(setting, A, row, col).value)

\* C4 as written: when from_above and from_left both exist with equal
\* total_cranes(), A[r][c] is from_above.
C4_AboveOnTie ==
  \A rc \in AllCells :
    (DpBothExist(rc[1], rc[2]) /\ DpTie(rc[1], rc[2]))
      => A[rc] = DpFromAbove(setting, A, rc[1], rc[2])

\* C4 amended: when both exist, A[r][c] is from_above only if its count is
\* strictly greater; on a tie, and when from_left has more, it is from_left.
C4_LeftOnTie ==
  \A rc \in AllCells :
    DpBothExist(rc[1], rc[2]) =>
      LET fa == DpFromAbove(setting, A, rc[1], rc[2])
          fl == DpFromLeft(setting, A, rc[1], rc[2])
      IN /\ A[rc].has_value
         /\ (total_cranes(fa.value) > total_cranes(fl.value)
               => A[rc] = fa /\ A[rc].value.steps[Len(A[rc].value.steps)] = STEP_DIRECTION_SOUTH)
         /\ (total_cranes(fa.value) <= total_cranes(fl.value)
               => A[rc] = fl /\ A[rc].value.steps[Len(A[rc].value.steps)] = STEP_DIRECTION_EAST)

C4_Witness ==
  \E rc \in AllCells :
    /\ DpBothExist(rc[1], rc[2])
    /\ DpTie(rc[1], rc[2])
    /\ A[rc] = DpFromLeft(setting, A, rc[1], rc[2])
    /\ A[rc] # DpFromAbove(setting, A, rc[1], rc[2])

----------------------------------------------------------------------------
(* C5: which path the exhaustive search returns *)

ExhCandidates ==
  UNION { { <<n, b>> : b \in 0 .. (2 ^ n - 1) } : n \in 1 .. ExhMaxSteps(setting) }

\* The moves of candidate <<n, b>>: bit i-1 of b gives move i, 1 = EAST.
ExhDecode(x) ==
  [i \in 1 .. x[1] |->
     IF (x[2] \div (2 ^ (i - 1))) % 2 = 1 THEN STEP_DIRECTION_EAST ELSE STEP_DIRECTION_SOUTH]

\* The fully valid candidates whose count is opt.
ExhCandidatesWith(opt) ==
  { x \in ExhCandidates :
      WalkOK(setting, ExhDecode(x)) /\ CranesOn(setting, ExhDecode(x)) = opt }

\* C5: crane_unloading_exhaustive returns the first path of the enumeration
\* that attains the maximum: the zero-length path if no fully valid candidate
\* beats the start cell alone, else the optimal candidate of least length and,
\* at that length, of least bit value.
C5_FirstOptimal ==
  pc = "dp_start" =>
    LET opt == Optimum(setting)
        firsts == ExhCandidatesWith(opt)
    IN IF opt = CranesOn(setting, <<>>)
       THEN exh_result.value.steps = <<>>
       ELSE \E x \in firsts :
              /\ exh_result.value.steps = ExhDecode(x)
              /\ \A y \in firsts : ~RowMajorBefore(y, x)

C5_Witness ==
  /\ pc = "dp_start"
  /\ HasBuilding
  /\ LET opt == Optimum(setting)
         firsts == ExhCandidatesWith(opt)
     IN /\ opt > CranesOn(setting, <<>>)
        /\ Cardinality(firsts) >= 2
        /\ \E x \in firsts :
             /\ exh_result.value.steps = ExhDecode(x)
             /\ \E y \in firsts : RowMajorBefore(x, y)

----------------------------------------------------------------------------
(* C6: the final scan *)

DpPresent == { rc \in AllCells : A[rc].has_value }

DpMaxCells ==
  { rc \in DpPresent :
      \A other \in DpPresent : total_cranes(A[other].value) <= total_cranes(A[rc].value) }

\* C6: crane_unloading_dyn_prog returns the present entry of greatest
\* total_cranes() and, among the entries that share it, the one of lowest
\* row-major index.
C6_FirstMax ==
  dp_result.has_value =>
    /\ dp_best \in DpMaxCells
    /\ \A rc \in DpMaxCells : ~RowMajorBefore(rc, dp_best)
    /\ dp_result = A[dp_best]

C6_Witness ==
  /\ pc = "done"
  /\ Cardinality(DpMaxCells) >= 2
  /\ dp_best # <<0, 0>>
  /\ dp_result = A[dp_best]
  /\ \E rc \in DpMaxCells : RowMajorBefore(dp_best, rc)

----------------------------------------------------------------------------
(* C7, C8: the table *)

\* C7: an entry the fill has done is present exactly when its cell is no
\* BUILDING and a walk from (0,0) through non-BUILDING cells ends there.
C7_PresentIffReachable ==
  \A rc \in AllCells :
    DpFilled(rc[1], rc[2]) =>
      (A[rc].has_value <=>
         (setting.cells[rc] # CELL_BUILDING /\ WalksTo(setting, rc[1], rc[2]) # {}))

C7_Witness ==
  /\ pc = "dp_scan"
  /\ \E rc \in AllCells : setting.cells[rc] = CELL_BUILDING /\ ~A[rc].has_value
  /\ \E rc \in AllCells :
       /\ setting.cells[rc] # CELL_BUILDING
       /\ ~A[rc].has_value
       /\ WalksTo(setting, rc[1], rc[2]) = {}
  /\ \E rc \in AllCells : rc # <<0, 0>> /\ A[rc].has_value

\* C8: during and after the fill, a present entry A[r][c] is a path that ends
\* at (r,c), and its total_cranes() is the greatest count of a walk from
\* (0,0) that ends at (r,c).
C8_EntryEndsAtCellAndBest ==
  pc = "dp_fill" =>
    \A rc \in AllCells :
      A[rc].has_value =>
        /\ final_row(A[rc].value) = rc[1]
        /\ final_column(A[rc].value) = rc[2]
        /\ total_cranes(A[rc].value)
             = MaxOf({ CranesOn(setting, s) : s \in WalksTo(setting, rc[1], rc[2]) })

C8_Witness ==
  /\ pc = "dp_fill"
  /\ \E rc \in AllCells :
       /\ rc[1] >= 1
       /\ rc[2] >= 1
       /\ A[rc].has_value
       /\ A[<<rc[1] - 1, rc[2]>>].has_value
       /\ A[<<rc[1], rc[2] - 1>>].has_value
       /\ total_cranes(A[<<rc[1] - 1, rc[2]>>].value) # total_cranes(A[<<rc[1], rc[2] - 1>>].value)
       /\ total_cranes(A[rc].value) >= 2
       /\ final_row(A[rc].value) = rc[1]
       /\ final_column(A[rc].value) = rc[2]

----------------------------------------------------------------------------
(* C9, C10: the replay of a candidate *)

\* The replay loop runs one iteration.
ReplayTaken == pc = "exh" /\ k < steps /\ k' = k + 1 /\ pc' = "exh"

\* The comparison after the replay is made.
CompareTaken == pc = "exh" /\ k = steps /\ steps <= ExhMaxSteps(setting) /\ k' = 0

ReplayDirection == ExhDirection(ExhBit(bits, k))

\* C9 as written: an invalid indicated direction marks the candidate invalid
\* without trying the other direction, and no move is appended to a candidate
\* that is already marked invalid.
C9_NoMoveAfterInvalid ==
  [][ReplayTaken =>
       /\ (~is_step_valid(setting, curr, ReplayDirection) => (~valid' /\ curr' = curr))
       /\ (~valid => (~valid' /\ curr' = curr))]_vars

\* C9 amended: an invalid indicated direction marks the candidate invalid
\* without trying the other direction, and the candidate stays invalid and is
\* never taken as best; the replay goes on, though, and every later step whose
\* direction is valid from the candidate's position is still appended.
C9_InvalidStaysAndReplayGoesOn ==
  [][/\ ReplayTaken =>
          /\ (~is_step_valid(setting, curr, ReplayDirection) => (~valid' /\ curr' = curr))
          /\ (~valid => ~valid')
          /\ (is_step_valid(setting, curr, ReplayDirection)
                => (curr' = add_step(setting, curr, ReplayDirection) /\ valid' = valid))
     /\ (CompareTaken /\ ~valid) => best' = best]_vars

C9_Witness ==
  /\ pc = "exh"
  /\ ~valid
  /\ k >= 2
  /\ ~is_step_valid(setting, NewPath(setting), ExhDirection(ExhBit(bits, 0)))
  /\ Len(curr.steps) >= 1

\* C10: no add_step is called where is_step_valid does not hold: no path is
\* the result of a failed add_step and the program never stops on it.
C10_AddStepPrecondition ==
  /\ pc # "assert_failed"
  /\ ~Failed(curr)
  /\ ~Failed(best)
  /\ \A rc \in AllCells : A[rc].has_value => ~Failed(A[rc].value)

C10_Witness ==
  /\ pc = "exh"
  /\ ~valid
  /\ k = steps
  /\ steps >= 3
  /\ Len(curr.steps) = steps - 1
  /\ ~is_step_valid(setting, NewPath(setting), ExhDirection(ExhBit(bits, 0)))
  /\ ~Failed(curr)

====
